---- MODULE Spec2Model ----
(***************************************************************************)
(* Model of the margin calculations of Arari PRO: the zustand store        *)
(* (src/arari-app/src/store/appStore.ts), the payroll slip modal           *)
(* (PayrollSlipModal in src/arari-app/src/components/layout/Header.tsx)    *)
(* and the employee detail modal (src/unnamed/part_001).                   *)
(*                                                                         *)
(* Conventions.                                                            *)
(*  - A field the code reads as `x || d` only, for which undefined and 0   *)
(*    behave alike, is an integer with 0 standing for both.  A field for   *)
(*    which absent and 0 must be told apart is optional: {} is undefined   *)
(*    and {n} is the number n.                                             *)
(*  - Quotients are exact rationals <<n, d>> in lowest terms with d > 0;   *)
(*    the result of an unguarded JavaScript division is a JsNum, which     *)
(*    may be NaN or an infinity.                                           *)
(*  - Math.round(grossSalary * rate) is computed on IEEE-754 doubles, as   *)
(*    the JavaScript engine computes it.                                   *)
(*  - A period token is the sequence of UTF-16 code units of the string.   *)
(***************************************************************************)
EXTENDS Integers, Sequences, FiniteSets, TLC

VARIABLES
    settings,          \* the store's settings object read by the modal
    employees,         \* store: Employee[]
    payrollRecords,    \* store: PayrollRecord[]
    availablePeriods,  \* store: string[]
    selectedPeriod,    \* store: string
    dashboardStats,    \* store: DashboardStats | null
    returned,          \* what the last call of a store action returned
    slipProps,         \* props of PayrollSlipModal: isOpen, record, employee
    slip,              \* what the last render of PayrollSlipModal computed
    detailProps,       \* props of EmployeeDetailModal: isOpen, employee
    detail,            \* what the last render of EmployeeDetailModal computed
    employeeCall,      \* the employee action a caller makes, with its argument
    files,             \* FileUploader: UploadedFileInfo[]
    uploads,           \* FileUploader: the timers of simulateUpload, one per drop
    folderPath,        \* FolderSync: string
    isLoading,         \* FolderSync: boolean
    result,            \* FolderSync: the response data, or null
    error,             \* FolderSync: string | null
    folderSync,        \* FolderSync: where the handleSync in flight stands
    isSyncing,         \* SettingsPage: boolean
    syncStatus,        \* SettingsPage: the status object, or null
    employeeSync,      \* SettingsPage: where the handleSync in flight stands
    clearTimers,       \* SettingsPage: the auto-clear timeouts not yet fired
    gaugeProps,        \* props of MarginGaugeChart: currentMargin, targetMargin
    gauge              \* what the last render of MarginGaugeChart passed to its pies

vars == <<settings, employees, payrollRecords, availablePeriods, selectedPeriod,
          dashboardStats, returned, slipProps, slip, detailProps, detail,
          employeeCall, files, uploads, folderPath, isLoading, result, error, folderSync,
          isSyncing, syncStatus, employeeSync, clearTimers, gaugeProps, gauge>>

storeVars == <<employees, payrollRecords, availablePeriods, selectedPeriod, dashboardStats>>

modalVars == <<slipProps, slip, detailProps, detail>>

uploaderVars == <<files, uploads>>

folderVars == <<folderPath, isLoading, result, error, folderSync>>

settingsPageVars == <<isSyncing, syncStatus, employeeSync, clearTimers>>

gaugeVars == <<gaugeProps, gauge>>

\* the components outside the store and the two modals
uiVars == <<employeeCall, uploaderVars, folderVars, settingsPageVars, gaugeVars>>

-----------------------------------------------------------------------------
(* Bounds of the model *)

\* payrollRecords holds at most this many records
MaxRecords == 3

\* addPayrollRecords is called with at most this many records
MaxBatch == 2

\* gross profits of the margin scenarios: 5 * k for k in -2..MaxProfitSteps, of a
\* billing amount of 1000, so margins step by half a point up to 16 %
MaxProfitSteps == 32

\* paid-leave amounts of the leave scenarios: 1000 * k for k in 0..MaxLeaveUnits
MaxLeaveUnits == 9

\* gross salaries of the cost scenarios: 0 and 172500 + 500 * k for k in 0..MaxSalarySteps
MaxSalarySteps == 1

\* hours in each premium bucket of the billing scenarios: 0..MaxHours
MaxHours == 2

\* currentMargin ranges over the halves from -MaxMarginHalves/2 to
\* MaxMarginHalves/2
MaxMarginHalves == 40

\* the most files dropped on the uploader
MaxFiles == 2

\* the most employee syncs started from the settings page
MaxSyncs == 4

\* the employee lists of the employee scenarios hold at most this many employees
MaxEmployees == 3

\* the record lists of the summary scenarios hold at most this many records
MaxSummaryRecords == 6

-----------------------------------------------------------------------------
(* JavaScript values *)

\* undefined, for an optional number
Undefined == {}

\* the number n, for an optional number
Some(n) == {n}

\* the number an optional number holds
NumOf(x) == CHOOSE n \in x : TRUE

\* x || d for an optional number x: undefined and 0 are falsy
OrElse(x, d) == IF x = Undefined \/ x = Some(0) THEN d ELSE NumOf(x)

\* null, for an object-valued result
Null == <<>>

\* an object-valued result
Obj(v) == <<v>>

\* the object a non-null result holds
The(x) == x[1]

Abs(n) == IF n < 0 THEN -n ELSE n

RECURSIVE GCD(_, _)
GCD(a, b) == IF b = 0 THEN a ELSE GCD(b, a % b)

\* the rational n/d (d # 0) in lowest terms with a positive denominator
Rat(n, d) ==
    LET g == GCD(Abs(n), Abs(d))
        s == IF d < 0 THEN -1 ELSE 1
    IN  <<(s * n) \div g, Abs(d) \div g>>

RatLeq(p, q) == p[1] * q[2] <= q[1] * p[2]

RatLess(p, q) == p[1] * q[2] < q[1] * p[2]

RatSub(p, q) == Rat(p[1] * q[2] - q[1] * p[2], p[2] * q[2])

RatAdd(p, q) == Rat(p[1] * q[2] + q[1] * p[2], p[2] * q[2])

\* p / q for q # 0
RatDiv(p, q) == Rat(p[1] * q[2], p[2] * q[1])

\* floor of a rational (\div rounds toward minus infinity in TLA+)
RatFloor(p) == p[1] \div p[2]

\* Math.round of a rational: the nearest integer, halves toward +infinity
MathRound(p) == (2 * p[1] + p[2]) \div (2 * p[2])

Finite(q) == [kind |-> "finite", q |-> q]

NaN == [kind |-> "NaN", q |-> <<0, 1>>]

PosInfinity == [kind |-> "Infinity", q |-> <<0, 1>>]

NegInfinity == [kind |-> "-Infinity", q |-> <<0, 1>>]

\* (a / b) * 100 for numbers a and b, as IEEE division defines it for b = 0
JsPercent(a, b) ==
    IF b # 0 THEN Finite(Rat(a * 100, b))
    ELSE IF a = 0 THEN NaN
    ELSE IF a > 0 THEN PosInfinity
    ELSE NegInfinity

-----------------------------------------------------------------------------
(* Period tokens: strings as sequences of UTF-16 code units *)

\* the code unit of the digit d
Digit(d) == 48 + d

IsDigit(c) == c >= 48 /\ c <= 57

\* U+5E74, the year mark
Nen == 24180

\* U+6708, the month mark
Gatsu == 26376

RECURSIVE Digits(_)
\* the decimal digits of n >= 0, as code units
Digits(n) == IF n < 10 THEN <<Digit(n)>> ELSE Digits(n \div 10) \o <<Digit(n % 10)>>

\* the token of year y, month m, as in "2025年10月"
PeriodToken(y, m) == Digits(y) \o <<Nen>> \o Digits(m) \o <<Gatsu>>

RECURSIVE ParseInt(_)
\* parseInt of a string of digits
ParseInt(s) ==
    IF s = <<>> THEN 0 ELSE 10 * ParseInt(SubSeq(s, 1, Len(s) - 1)) + (s[Len(s)] - 48)

\* the ordering of String.prototype < : code unit by code unit, a prefix first
RECURSIVE StrLess(_, _)
StrLess(a, b) ==
    IF b = <<>> THEN FALSE
    ELSE IF a = <<>> THEN TRUE
    ELSE IF a[1] # b[1] THEN a[1] < b[1]
    ELSE StrLess(Tail(a), Tail(b))

\* a year match with no default: the empty string when nothing matches
MatchYear_NoDefault(s) ==
    LET hits == {i \in 1..(Len(s) - 4) :
                    /\ \A k \in 0..3 : IsDigit(s[i + k])
                    /\ s[i + 4] = Nen}
    IN  IF hits = {} THEN <<>>
        ELSE LET i == CHOOSE j \in hits : \A k \in hits : j <= k
             IN  SubSeq(s, i, i + 3)

\* period.match(/(\d{4})年/)?.[1] || '2025' : the leftmost four digits before 年
MatchYear(s) ==
    LET hits == {i \in 1..(Len(s) - 4) :
                    /\ \A k \in 0..3 : IsDigit(s[i + k])
                    /\ s[i + 4] = Nen}
    IN  IF hits = {} THEN Digits(2025)
        ELSE LET i == CHOOSE j \in hits : \A k \in hits : j <= k
             IN  SubSeq(s, i, i + 3)

\* period.match(/(\d{1,2})月/)?.[1] || '1' : the leftmost match, two digits if it can
MatchMonth(s) ==
    LET two(i) == i + 2 <= Len(s) /\ IsDigit(s[i]) /\ IsDigit(s[i + 1]) /\ s[i + 2] = Gatsu
        one(i) == i + 1 <= Len(s) /\ IsDigit(s[i]) /\ s[i + 1] = Gatsu
        hits == {i \in 1..Len(s) : two(i) \/ one(i)}
    IN  IF hits = {} THEN Digits(1)
        ELSE LET i == CHOOSE j \in hits : \A k \in hits : j <= k
             IN  IF two(i) THEN SubSeq(s, i, i + 1) ELSE SubSeq(s, i, i)

-----------------------------------------------------------------------------
(* Records and employees *)

\* a payroll record with every amount 0 and no precomputed company cost
BaseRecord(employeeId, period) ==
    [employeeId |-> employeeId, period |-> period,
     workDays |-> 0, workHours |-> 0, overtimeHours |-> 0, overtimeOver60h |-> 0,
     nightHours |-> 0, holidayHours |-> 0,
     paidLeaveDays |-> 0, paidLeaveHours |-> 0, paidLeaveAmount |-> 0,
     otherAllowances |-> 0, transportAllowance |-> 0, nonBillableAllowances |-> 0,
     grossSalary |-> 0,
     socialInsurance |-> 0, welfarePension |-> 0, employmentInsurance |-> 0,
     incomeTax |-> 0, residentTax |-> 0,
     rentDeduction |-> 0, utilitiesDeduction |-> 0, mealDeduction |-> 0,
     advancePayment |-> 0, yearEndAdjustment |-> 0,
     otherDeductions |-> 0, netSalary |-> 0,
     billingAmount |-> 0, grossProfit |-> 0, profitMargin |-> <<0, 1>>,
     companySocialInsurance |-> Undefined, companyEmploymentInsurance |-> Undefined,
     companyWorkersComp |-> Undefined, totalCompanyCost |-> Undefined]

Employee(id, employeeId, name, hourlyRate, billingRate) ==
    [id |-> id, employeeId |-> employeeId, name |-> name,
     hourlyRate |-> hourlyRate, billingRate |-> billingRate]

\* a stored record of the aggregation: billing 1000, the profit given, the
\* company cost fields carried
StoreRecord(employeeId, period, grossProfit) ==
    [BaseRecord(employeeId, period) EXCEPT
        !.grossSalary = 700, !.billingAmount = 1000, !.grossProfit = grossProfit,
        !.profitMargin = Rat(grossProfit * 100, 1000), !.paidLeaveHours = 8,
        !.transportAllowance = 10,
        !.companySocialInsurance = Some(60), !.companyEmploymentInsurance = Some(6),
        !.companyWorkersComp = Some(2), !.totalCompanyCost = Some(1000 - grossProfit)]

EmployeeIds == {"E1", "E2"}

StorePeriods == {PeriodToken(2025, 9), PeriodToken(2025, 10)}

\* the periods calculateMonthlySummary and setSelectedPeriod are called with
AskedPeriods == StorePeriods \cup {PeriodToken(2025, 1)}

\* the records addPayrollRecords is called with
RecordPool ==
    {StoreRecord(e, p, g) : e \in EmployeeIds, p \in StorePeriods, g \in {100, 200}}

\* sampleEmployees of @/data/sampleData
sampleEmployees ==
    <<Employee("1", "E1", "A", 1000, 1500), Employee("2", "E2", "B", 1200, 1500)>>

\* samplePayrollRecords of @/data/sampleData
samplePayrollRecords ==
    <<StoreRecord("E1", PeriodToken(2025, 10), 200),
      StoreRecord("E2", PeriodToken(2025, 10), 100)>>

\* the employees updateEmployee is called with
EmployeePool ==
    {Employee(i, "E1", "A2", h, 1500) : i \in {"1", "3"}, h \in {0, 1100}}

-----------------------------------------------------------------------------
(* Array helpers *)

Range(s) == {s[i] : i \in 1..Len(s)}

\* Array.prototype.filter
Filter(s, Keep(_)) ==
    LET kept[i \in 0..Len(s)] ==
            IF i = 0 THEN <<>>
            ELSE IF Keep(s[i]) THEN Append(kept[i - 1], s[i]) ELSE kept[i - 1]
    IN  kept[Len(s)]

\* Array.prototype.map
MapSeq(s, F(_)) == [i \in 1..Len(s) |-> F(s[i])]

\* Array.prototype.reduce((sum, r) => sum + F(r), 0)
Reduce(s, F(_)) ==
    LET sum[i \in 0..Len(s)] == IF i = 0 THEN 0 ELSE sum[i - 1] + F(s[i])
    IN  sum[Len(s)]

\* the same reduce over rationals
ReduceRat(s, F(_)) ==
    LET sum[i \in 0..Len(s)] == IF i = 0 THEN <<0, 1>> ELSE RatAdd(sum[i - 1], F(s[i]))
    IN  sum[Len(s)]

\* Array.prototype.slice(0, n)
Slice(s, n) == SubSeq(s, 1, IF Len(s) < n THEN Len(s) ELSE n)

RECURSIVE Reverse(_)
\* Array.prototype.reverse
Reverse(s) == IF s = <<>> THEN <<>> ELSE Reverse(Tail(s)) \o <<s[1]>>

RECURSIVE SortStrings(_)
\* Array.from(new Set(xs)).sort(): the distinct strings, ascending by code unit
SortStrings(S) ==
    IF S = {} THEN <<>>
    ELSE LET m == CHOOSE a \in S : \A b \in S \ {a} : StrLess(a, b)
         IN  <<m>> \o SortStrings(S \ {m})

\* Array.prototype.sort(cmp), which is stable: each element goes in behind the
\* elements that do not compare after it
SortWith(s, Cmp(_, _)) ==
    LET insert(t, x) ==
            LET after == {j \in 1..Len(t) : Cmp(t[j], x) > 0}
                p == IF after = {} THEN Len(t) + 1
                     ELSE CHOOSE j \in after : \A k \in after : j <= k
            IN  SubSeq(t, 1, p - 1) \o <<x>> \o SubSeq(t, p, Len(t))
        sorted[i \in 0..Len(s)] == IF i = 0 THEN <<>> ELSE insert(sorted[i - 1], s[i])
    IN  sorted[Len(s)]

\* employees.find(e => e.employeeId === id), null when there is none
FindEmployee(emps, id) ==
    LET hits == {i \in 1..Len(emps) : emps[i].employeeId = id}
    IN  IF hits = {} THEN Null
        ELSE Obj(emps[CHOOSE i \in hits : \A j \in hits : i <= j])

-----------------------------------------------------------------------------
(* The store: appStore.ts *)

\* how many entries topProfitEmployees and bottomProfitEmployees keep
TopN == 5

\* Array.from(new Set(records.map(r => r.period))).sort().reverse()
PeriodsOf(records) == Reverse(SortStrings({r.period : r \in Range(records)}))

\* generateDashboardStats(employees, payrollRecords): a function of its arguments
generateDashboardStats(emps, records) == Obj(<<emps, records>>)

\* a filter that keeps every record, whatever its period
PeriodRecords_Unfiltered(records, period) == records

\* payrollRecords.filter(r => r.period === period)
PeriodRecords(records, period) == Filter(records, LAMBDA r : r.period = period)

\* the entry of a top or bottom list
ProfitEntry(emps, r) ==
    LET e == FindEmployee(emps, r.employeeId)
    IN  [employeeId |-> r.employeeId,
         name |-> IF e = Null THEN "" ELSE The(e).name,
         profit |-> r.grossProfit]

\* employees.find(e => e.employeeId === r.employeeId)?.hourlyRate || 0
hourlyRateOf(emps, r) ==
    LET e == FindEmployee(emps, r.employeeId)
    IN  IF e = Null THEN 0 ELSE The(e).hourlyRate

\* sum + x over optional numbers: NaN once an undefined has been added
SumOptional(xs) ==
    IF \E i \in 1..Len(xs) : xs[i] = Undefined THEN NaN
    ELSE Finite(<<Reduce(xs, LAMBDA x : NumOf(x)), 1>>)

\* a revenue total that adds up the salaries
totalRevenue_OfSalaries(periodRecords) == Reduce(periodRecords, LAMBDA r : r.grossSalary)

totalRevenue(periodRecords) == Reduce(periodRecords, LAMBDA r : r.billingAmount)

totalSalaryCost(periodRecords) == Reduce(periodRecords, LAMBDA r : r.grossSalary)

totalSocialInsurance(periodRecords) ==
    SumOptional(MapSeq(periodRecords, LAMBDA r : r.companySocialInsurance))

totalEmploymentInsurance(periodRecords) ==
    SumOptional(MapSeq(periodRecords, LAMBDA r : r.companyEmploymentInsurance))

totalPaidLeaveCost(emps, periodRecords) ==
    Reduce(periodRecords, LAMBDA r : r.paidLeaveHours * hourlyRateOf(emps, r))

totalTransportCost(periodRecords) == Reduce(periodRecords, LAMBDA r : r.transportAllowance)

totalCompanyCost(periodRecords) ==
    SumOptional(MapSeq(periodRecords, LAMBDA r : r.totalCompanyCost))

totalGrossProfit(periodRecords) == Reduce(periodRecords, LAMBDA r : r.grossProfit)

\* the margin of the period's totals
averageMargin_OfTotals(periodRecords) ==
    Rat(totalGrossProfit(periodRecords) * 100, totalRevenue(periodRecords))

\* the sum of the records' own profitMargin over their number
averageMargin(periodRecords) ==
    RatDiv(ReduceRat(periodRecords, LAMBDA r : r.profitMargin), <<Len(periodRecords), 1>>)

\* periodRecords.sort((a, b) => b.grossProfit - a.grossProfit), in place
SortByProfitDesc(periodRecords) ==
    SortWith(periodRecords, LAMBDA a, b : b.grossProfit - a.grossProfit)

\* periodRecords.sort((a, b) => a.grossProfit - b.grossProfit), in place
SortByProfitAsc(periodRecords) ==
    SortWith(periodRecords, LAMBDA a, b : a.grossProfit - b.grossProfit)

topProfitEmployees(emps, periodRecords) ==
    MapSeq(Slice(SortByProfitDesc(periodRecords), TopN), LAMBDA r : ProfitEntry(emps, r))

\* a bottom list read off the descending order backwards
bottomProfitEmployees_Backwards(emps, periodRecords) ==
    MapSeq(Slice(Reverse(SortByProfitDesc(periodRecords)), TopN),
           LAMBDA r : ProfitEntry(emps, r))

\* the second sort works on the array the first one has already reordered
bottomProfitEmployees(emps, periodRecords) ==
    MapSeq(Slice(SortByProfitAsc(SortByProfitDesc(periodRecords)), TopN),
           LAMBDA r : ProfitEntry(emps, r))

\* what calculateMonthlySummary(period) returns
MonthlySummary(emps, records, period) ==
    LET periodRecords == PeriodRecords(records, period)
    IN  IF Len(periodRecords) = 0 THEN Null
        ELSE Obj(
          [period |-> period,
           year |-> ParseInt(MatchYear(period)),
           month |-> ParseInt(MatchMonth(period)),
           totalEmployees |-> Len(periodRecords),
           totalRevenue |-> totalRevenue(periodRecords),
           totalSalaryCost |-> totalSalaryCost(periodRecords),
           totalSocialInsurance |-> totalSocialInsurance(periodRecords),
           totalEmploymentInsurance |-> totalEmploymentInsurance(periodRecords),
           totalPaidLeaveCost |-> totalPaidLeaveCost(emps, periodRecords),
           totalTransportCost |-> totalTransportCost(periodRecords),
           totalCompanyCost |-> totalCompanyCost(periodRecords),
           totalGrossProfit |-> totalGrossProfit(periodRecords),
           averageMargin |-> averageMargin(periodRecords),
           topProfitEmployees |-> topProfitEmployees(emps, periodRecords),
           bottomProfitEmployees |-> bottomProfitEmployees(emps, periodRecords)])

loadSampleData ==
    LET periods == PeriodsOf(samplePayrollRecords)
    IN  /\ employees' = sampleEmployees
        /\ payrollRecords' = samplePayrollRecords
        /\ availablePeriods' = periods
        /\ selectedPeriod' = IF periods # <<>> THEN periods[1] ELSE PeriodToken(2025, 1)
        /\ dashboardStats' = generateDashboardStats(sampleEmployees, samplePayrollRecords)
        /\ returned' = Null
        /\ UNCHANGED <<settings, modalVars, uiVars>>

addPayrollRecords(records) ==
    LET newRecords == payrollRecords \o records
    IN  /\ Len(newRecords) <= MaxRecords
        /\ payrollRecords' = newRecords
        /\ availablePeriods' = PeriodsOf(newRecords)
        /\ dashboardStats' = generateDashboardStats(employees, newRecords)
        /\ returned' = Null
        /\ UNCHANGED <<employees, selectedPeriod, settings, modalVars, uiVars>>

\* an update that finds the employee by employeeId
updateEmployee_ByEmployeeId(employee) ==
    LET updated == MapSeq(employees, LAMBDA e : IF e.employeeId = employee.employeeId
                                                THEN employee ELSE e)
    IN  /\ employees' = updated
        /\ dashboardStats' = generateDashboardStats(updated, payrollRecords)
        /\ returned' = Null
        /\ UNCHANGED <<payrollRecords, availablePeriods, selectedPeriod,
                       settings, modalVars, uiVars>>

updateEmployee(employee) ==
    LET updated == MapSeq(employees, LAMBDA e : IF e.id = employee.id THEN employee ELSE e)
    IN  /\ employees' = updated
        /\ dashboardStats' = generateDashboardStats(updated, payrollRecords)
        /\ returned' = Null
        /\ UNCHANGED <<payrollRecords, availablePeriods, selectedPeriod,
                       settings, modalVars, uiVars>>

deleteEmployee(id) ==
    LET kept == Filter(employees, LAMBDA e : e.id # id)
    IN  /\ employees' = kept
        /\ dashboardStats' = generateDashboardStats(kept, payrollRecords)
        /\ returned' = Null
        /\ UNCHANGED <<payrollRecords, availablePeriods, selectedPeriod,
                       settings, modalVars, uiVars>>

setSelectedPeriod(period) ==
    /\ selectedPeriod' = period
    /\ returned' = Null
    /\ UNCHANGED <<employees, payrollRecords, availablePeriods, dashboardStats,
                   settings, modalVars, uiVars>>

\* a summary whose sorts reorder the stored array itself
calculateMonthlySummary_SortsStore(period) ==
    /\ returned' = Obj([period |-> period,
                         result |-> MonthlySummary(employees, payrollRecords, period)])
    /\ payrollRecords' = SortByProfitAsc(SortByProfitDesc(payrollRecords))
    /\ UNCHANGED <<employees, availablePeriods, selectedPeriod, dashboardStats,
                   settings, modalVars, uiVars>>

calculateMonthlySummary(period) ==
    /\ returned' = Obj([period |-> period,
                         result |-> MonthlySummary(employees, payrollRecords, period)])
    /\ UNCHANGED <<storeVars, settings, modalVars, uiVars>>

-----------------------------------------------------------------------------
(* Rates and Math.round(grossSalary * rate) on IEEE-754 doubles *)

\* A rate: its decimal value num/den, and the double the literal denotes,
\* mant * 2^exp with mant given by its 14 hexadecimal digits, the first the
\* most significant.

\* 0.009 = 0x1.26e978d4fdf3bp-7
Rate009 == [num |-> 9, den |-> 1000, exp |-> -59,
            mant |-> <<1, 2, 6, 14, 9, 7, 8, 13, 4, 15, 13, 15, 3, 11>>]

\* 0.003 = 0x1.89374bc6a7efap-9
Rate003 == [num |-> 3, den |-> 1000, exp |-> -61,
            mant |-> <<1, 8, 9, 3, 7, 4, 11, 12, 6, 10, 7, 14, 15, 10>>]

\* 0.006 = 0x1.89374bc6a7efap-8, a configured rate
Rate006 == [num |-> 6, den |-> 1000, exp |-> -60,
            mant |-> <<1, 8, 9, 3, 7, 4, 11, 12, 6, 10, 7, 14, 15, 10>>]

\* 0, a configured rate
RateZero == [num |-> 0, den |-> 1, exp |-> 0, mant |-> <<0>>]

\* x || d for an optional rate x
RateOrElse(x, d) == IF x = Undefined \/ NumOf(x).num = 0 THEN d ELSE NumOf(x)

RECURSIVE MulLimbs(_, _, _)
\* the base-16 limbs, least significant first, of limbs * g + carry
MulLimbs(limbs, g, carry) ==
    IF limbs = <<>>
    THEN IF carry = 0 THEN <<>> ELSE <<carry % 16>> \o MulLimbs(<<>>, g, carry \div 16)
    ELSE LET t == limbs[1] * g + carry
         IN  <<t % 16>> \o MulLimbs(Tail(limbs), g, t \div 16)

\* bit i (1 the least significant) of a number given by its base-16 limbs
BitOf(limbs, i) ==
    IF i < 1 \/ i > 4 * Len(limbs) THEN 0
    ELSE LET l == limbs[((i - 1) \div 4) + 1]
             k == (i - 1) % 4
         IN  (l \div (IF k = 0 THEN 1 ELSE IF k = 1 THEN 2 ELSE IF k = 2 THEN 4 ELSE 8)) % 2

\* the significand width of a double
DoubleBits == 53

\* Math.round(g * rate) for an integer 0 <= g < 2^26 and a rate below 1: the
\* exact product is rounded to a double (nearest, ties to even), and the
\* double to the nearest integer (ties toward +infinity).
RoundProduct(g, rate) ==
    LET P == MulLimbs(Reverse(rate.mant), g, 0)
        B(i) == BitOf(P, i)
        ones == {i \in 1..(4 * Len(P)) : B(i) = 1}
    IN  IF ones = {} THEN 0
        ELSE
        LET L == CHOOSE i \in ones : \A j \in ones : j <= i
            shift == IF L > DoubleBits THEN L - DoubleBits ELSE 0
            Q(i) == B(shift + i)
            guard == shift > 0 /\ B(shift) = 1
            sticky == \E i \in 1..(shift - 1) : B(i) = 1
            roundUp == guard /\ (sticky \/ Q(1) = 1)
            f == -(rate.exp + shift)
            n == L - shift
            hiBits[i \in f..n] == IF i = f THEN 0 ELSE hiBits[i - 1] + Q(i) * (2 ^ (i - f - 1))
            hi == IF n > f THEN hiBits[n] ELSE 0
            half == Q(f) = 1
            lowOnes == \A i \in 1..(f - 1) : Q(i) = 1
        IN  IF roundUp
            THEN (IF half \/ lowOnes THEN hi + 1 ELSE hi)
            ELSE (IF half THEN hi + 1 ELSE hi)

-----------------------------------------------------------------------------
(* PayrollSlipModal: Header.tsx *)

\* the target margin when none is set
DefaultTargetMargin == 15

\* a margin taken on the profit left after a fixed fee of 100
marginRate_AfterFee(record) ==
    IF record.billingAmount > 0
    THEN JsPercent(record.grossProfit - 100, record.billingAmount)
    ELSE Finite(<<0, 1>>)

\* record.billingAmount > 0 ? (record.grossProfit / record.billingAmount) * 100 : 0
marginRate(record) ==
    IF record.billingAmount > 0 THEN JsPercent(record.grossProfit, record.billingAmount)
    ELSE Finite(<<0, 1>>)

\* settings.target_margin || 15
TargetOf(s) == OrElse(s.target_margin, DefaultTargetMargin)

\* margin >= t for a number margin and an integer t; false for NaN
JsGeq(margin, t) ==
    IF margin.kind = "finite" THEN RatLeq(<<t, 1>>, margin.q)
    ELSE margin.kind = "Infinity"

\* a band assignment whose lower bounds are exclusive
getMarginColor_Exclusive(margin, s) ==
    LET target == TargetOf(s)
        above(t) == JsGeq(margin, t) /\ margin # Finite(<<t, 1>>)
    IN  IF above(target) THEN "emerald"
        ELSE IF above(target - 3) THEN "green"
        ELSE IF above(target - 7) THEN "amber"
        ELSE "red"

\* getMarginColor(margin): the colour of the band
getMarginColor(margin, s) ==
    LET target == TargetOf(s)
    IN  IF JsGeq(margin, target) THEN "emerald"
        ELSE IF JsGeq(margin, target - 3) THEN "green"
        ELSE IF JsGeq(margin, target - 7) THEN "amber"
        ELSE "red"

\* hours * employee.billingRate * multiplier, the multiplier in hundredths
BillingRow(hours, billingRate, percent) == Rat(hours * billingRate * percent, 100)

baseBilling(record, employee) == BillingRow(record.workHours, employee.billingRate, 100)

overtimeBilling(record, employee) == BillingRow(record.overtimeHours, employee.billingRate, 125)

overtime60hBilling(record, employee) ==
    BillingRow(record.overtimeOver60h, employee.billingRate, 150)

nightBilling(record, employee) == BillingRow(record.nightHours, employee.billingRate, 25)

\* a holiday row billed at the overtime multiplier
holidayBilling_AsOvertime(record, employee) ==
    BillingRow(record.holidayHours, employee.billingRate, 125)

holidayBilling(record, employee) == BillingRow(record.holidayHours, employee.billingRate, 135)

totalDeductions(record) ==
    record.socialInsurance + record.welfarePension + record.employmentInsurance
    + record.incomeTax + record.residentTax + record.otherDeductions

\* record.companySocialInsurance || (companyHealthIns + companyWelfarePension)
companySocialIns(record) ==
    OrElse(record.companySocialInsurance, record.socialInsurance + record.welfarePension)

\* settings.employment_insurance_rate || 0.009
empInsRate(s) == RateOrElse(s.employment_insurance_rate, Rate009)

\* record.companyEmploymentInsurance || Math.round((record.grossSalary || 0) * empInsRate)
companyEmploymentIns(record, s) ==
    OrElse(record.companyEmploymentInsurance, RoundProduct(record.grossSalary, empInsRate(s)))

\* settings.workers_comp_rate || 0.003
workersCompRate(s) == RateOrElse(s.workers_comp_rate, Rate003)

\* record.companyWorkersComp || Math.round((record.grossSalary || 0) * workersCompRate)
companyWorkersComp(record, s) ==
    OrElse(record.companyWorkersComp, RoundProduct(record.grossSalary, workersCompRate(s)))

totalCompanyBenefits(record, s) ==
    companySocialIns(record) + companyEmploymentIns(record, s) + companyWorkersComp(record, s)

\* record.totalCompanyCost || (record.grossSalary + totalCompanyBenefits)
totalCostShown(record, s) ==
    OrElse(record.totalCompanyCost, record.grossSalary + totalCompanyBenefits(record, s))

\* (record.workDays && record.workDays > 0 && record.workHours)
\*     ? record.workHours / record.workDays : 8
dailyWorkHours(record) ==
    IF record.workDays # 0 /\ record.workDays > 0 /\ record.workHours # 0
    THEN Rat(record.workHours, record.workDays)
    ELSE <<8, 1>>

\* a rounding of the days down to the half day below
RoundToHalf_Floor(rawDays) == Rat(RatFloor(<<2 * rawDays[1], rawDays[2]>>), 2)

\* Math.round(rawDays * 2) / 2
RoundToHalf(rawDays) == Rat(MathRound(<<2 * rawDays[1], rawDays[2]>>), 2)

\* the paid-leave panel's hours: the amount over the hourly rate, or else the
\* stored hours
calculatedPaidLeaveHours(record, employee) ==
    IF record.paidLeaveAmount # 0 /\ employee.hourlyRate > 0
    THEN Rat(record.paidLeaveAmount, employee.hourlyRate)
    ELSE <<record.paidLeaveHours, 1>>

\* the paid-leave panel, null when it is not rendered
PaidLeavePanel(record, employee) ==
    IF record.paidLeaveDays > 0 \/ record.paidLeaveHours > 0 \/ record.paidLeaveAmount > 0
    THEN LET daily == dailyWorkHours(record)
             hours == calculatedPaidLeaveHours(record, employee)
             rawDays == IF RatLess(<<0, 1>>, daily) THEN RatDiv(hours, daily)
                        ELSE <<record.paidLeaveDays, 1>>
         IN  Obj([dailyWorkHours |-> daily, hours |-> hours, rawDays |-> rawDays,
                  days |-> RoundToHalf(rawDays)])
    ELSE Null

\* the hours of the pay-component row and of the cost-breakdown row
leaveHrs(record, employee) ==
    IF employee.hourlyRate > 0 THEN Rat(record.paidLeaveAmount, employee.hourlyRate)
    ELSE <<0, 1>>

\* the paid-leave row of the pay components and of the cost breakdown, null
\* when it is not rendered
PaidLeaveRow(record, employee) ==
    IF record.paidLeaveAmount > 0
    THEN LET dailyHrs == dailyWorkHours(record)
             hours == leaveHrs(record, employee)
             rawLeaveDays == IF RatLess(<<0, 1>>, dailyHrs) THEN RatDiv(hours, dailyHrs)
                             ELSE <<0, 1>>
         IN  Obj([dailyWorkHours |-> dailyHrs, hours |-> hours, rawDays |-> rawLeaveDays,
                  days |-> RoundToHalf(rawLeaveDays)])
    ELSE Null

\* what a render of PayrollSlipModal computes and shows
PayrollSlipModal(props, s) ==
    IF ~props.isOpen THEN Null
    ELSE
    LET record == props.record
        employee == props.employee
    IN  Obj(
        [marginRate |-> marginRate(record),
         target |-> TargetOf(s),
         marginColor |-> getMarginColor(marginRate(record), s),
         baseBilling |-> baseBilling(record, employee),
         overtimeBilling |-> overtimeBilling(record, employee),
         overtime60hBilling |-> overtime60hBilling(record, employee),
         nightBilling |-> nightBilling(record, employee),
         holidayBilling |-> holidayBilling(record, employee),
         otherAllowances |-> record.otherAllowances,
         billingAmount |-> record.billingAmount,
         totalDeductions |-> totalDeductions(record),
         netSalary |-> record.netSalary,
         grossSalary |-> record.grossSalary,
         companyHealthIns |-> record.socialInsurance,
         companyWelfarePension |-> record.welfarePension,
         companySocialIns |-> companySocialIns(record),
         companyEmploymentIns |-> companyEmploymentIns(record, s),
         companyWorkersComp |-> companyWorkersComp(record, s),
         totalCompanyBenefits |-> totalCompanyBenefits(record, s),
         totalCompanyCost |-> totalCostShown(record, s),
         grossProfit |-> record.grossProfit,
         paidLeavePanel |-> PaidLeavePanel(record, employee),
         paidLeavePayRow |-> PaidLeaveRow(record, employee),
         paidLeaveCostRow |-> PaidLeaveRow(record, employee)])

RenderPayrollSlip ==
    /\ slip' = PayrollSlipModal(slipProps, settings)
    /\ UNCHANGED <<storeVars, settings, returned, slipProps, detailProps, detail, uiVars>>

-----------------------------------------------------------------------------
(* FileUploader *)

\* The ids are Math.random().toString(36).substr(2, 9): nine random base-36
\* digits per file, taken here as distinct; the n-th file started has id n.
\* uploads[n] is the closure of simulateUpload(n): its progress, its interval,
\* how often clearInterval ran, and its setTimeout.

\* the amounts Math.random() * 15 adds on one tick
Increments == {0, 7, 14}

\* the counts Math.floor(Math.random() * 50) + 10 of a successful file
RecordCounts == {10, 59}

UploadedFileInfo(id) ==
    [id |-> id, status |-> "uploading", progress |-> 0,
     records |-> Undefined, error |-> Null]

\* an upload whose interval was never set
simulateUpload_NoInterval ==
    [progress |-> 0, interval |-> "cleared", cleared |-> 0, timeout |-> "none"]

\* the state simulateUpload(fileId) sets up: let progress = 0 and setInterval
simulateUpload ==
    [progress |-> 0, interval |-> "running", cleared |-> 0, timeout |-> "none"]

\* onDrop(acceptedFiles) with count accepted files
onDrop(count) ==
    /\ Len(uploads) + count <= MaxFiles
    /\ files' = files \o [k \in 1..count |-> UploadedFileInfo(Len(uploads) + k)]
    /\ uploads' = uploads \o [k \in 1..count |-> simulateUpload]
    /\ UNCHANGED <<storeVars, settings, returned, modalVars, employeeCall,
                   folderVars, settingsPageVars, gaugeVars>>

\* a callback that shows the sum it reached instead of 100
IntervalTick_NoCap(fileId, inc) ==
    LET progress == uploads[fileId].progress + inc
    IN  /\ fileId \in DOMAIN uploads
        /\ uploads[fileId].interval = "running"
        /\ uploads' = [uploads EXCEPT ![fileId] =
               IF progress >= 100
               THEN [progress |-> 100, interval |-> "cleared",
                     cleared |-> @.cleared + 1, timeout |-> "pending"]
               ELSE [@ EXCEPT !.progress = progress]]
        /\ files' = [k \in 1..Len(files) |->
               IF files[k].id = fileId
               THEN [files[k] EXCEPT
                        !.status = IF progress >= 100 THEN "processing" ELSE @,
                        !.progress = progress]
               ELSE files[k]]
        /\ UNCHANGED <<storeVars, settings, returned, modalVars, employeeCall,
                       folderVars, settingsPageVars, gaugeVars>>

\* one run of the interval's callback of simulateUpload(fileId), Math.random()
\* * 15 being inc
IntervalTick(fileId, inc) ==
    LET progress == uploads[fileId].progress + inc
    IN  /\ fileId \in DOMAIN uploads
        /\ uploads[fileId].interval = "running"
        /\ IF progress >= 100
           THEN /\ uploads' = [uploads EXCEPT ![fileId] =
                       [progress |-> 100, interval |-> "cleared",
                        cleared |-> @.cleared + 1, timeout |-> "pending"]]
                /\ files' = [k \in 1..Len(files) |->
                       IF files[k].id = fileId
                       THEN [files[k] EXCEPT !.status = "processing",
                                             !.progress = 100]
                       ELSE files[k]]
           ELSE /\ uploads' = [uploads EXCEPT ![fileId].progress = progress]
                /\ files' = [k \in 1..Len(files) |->
                       IF files[k].id = fileId
                       THEN [files[k] EXCEPT !.progress = progress]
                       ELSE files[k]]
        /\ UNCHANGED <<storeVars, settings, returned, modalVars, employeeCall,
                       folderVars, settingsPageVars, gaugeVars>>

\* a callback that writes its outcome to every listed file
ProcessingTimeout_EveryFile(fileId, success, count) ==
    /\ fileId \in DOMAIN uploads
    /\ uploads[fileId].timeout = "pending"
    /\ uploads' = [uploads EXCEPT ![fileId].timeout = "fired"]
    /\ files' = [k \in 1..Len(files) |->
           [files[k] EXCEPT
               !.status = IF success THEN "success" ELSE "error",
               !.records = IF success THEN Some(count) ELSE Undefined,
               !.error = IF success THEN Null ELSE Obj("parse failed")]]
    /\ UNCHANGED <<storeVars, settings, returned, modalVars, employeeCall,
                   folderVars, settingsPageVars, gaugeVars>>

\* the setTimeout callback of simulateUpload(fileId), 1500 ms after the
\* interval was cleared
ProcessingTimeout(fileId, success, count) ==
    /\ fileId \in DOMAIN uploads
    /\ uploads[fileId].timeout = "pending"
    /\ uploads' = [uploads EXCEPT ![fileId].timeout = "fired"]
    /\ files' = [k \in 1..Len(files) |->
           IF files[k].id = fileId
           THEN [files[k] EXCEPT
                    !.status = IF success THEN "success" ELSE "error",
                    !.records = IF success THEN Some(count) ELSE Undefined,
                    !.error = IF success THEN Null ELSE Obj("parse failed")]
           ELSE files[k]]
    /\ UNCHANGED <<storeVars, settings, returned, modalVars, employeeCall,
                   folderVars, settingsPageVars, gaugeVars>>

\* removeFile(fileId), from the button of a listed file
removeFile(fileId) ==
    LET Kept(f) == f.id # fileId
    IN  /\ \E k \in 1..Len(files) : files[k].id = fileId
        /\ files' = SelectSeq(files, Kept)
        /\ UNCHANGED <<uploads, storeVars, settings, returned, modalVars,
                       employeeCall, folderVars, settingsPageVars, gaugeVars>>

-----------------------------------------------------------------------------
(* FolderSync *)

\* 'D:\\給料明細', the path the input starts with
DefaultFolderPath == <<68, 58, 92, 32102, 26009, 26126, 32048>>

\* the white space String.prototype.trim removes
IsSpace(c) == c \in {9, 10, 11, 12, 13, 32, 160, 12288}

\* s.trim()
RECURSIVE TrimStart(_)
TrimStart(s) ==
    IF s # <<>> /\ IsSpace(Head(s)) THEN TrimStart(Tail(s)) ELSE s

Trim(s) == Reverse(TrimStart(Reverse(TrimStart(s))))

\* the bodies response.json() resolves with
SyncResponses ==
    [detail : {Null, Obj("folder not found")},
     total_records_saved : {Undefined, Some(0), Some(2)},
     files_processed : {Undefined, Some(0), Some(1)}]

\* x > 0 for an optional number: undefined > 0 is false
Positive(x) == x # Undefined /\ NumOf(x) > 0

\* the input's onChange; the input is disabled while isLoading
setFolderPath(path) ==
    /\ ~isLoading
    /\ folderPath' = path
    /\ UNCHANGED <<isLoading, result, error, folderSync, storeVars, settings,
                   returned, modalVars, employeeCall, uploaderVars,
                   settingsPageVars, gaugeVars>>

\* handleSync() up to its return or its first await
handleSync ==
    /\ IF Trim(folderPath) = <<>>
       THEN /\ error' = Obj("enter a folder path")
            /\ UNCHANGED <<isLoading, result, folderSync>>
       ELSE /\ isLoading' = TRUE
            /\ error' = Null
            /\ result' = Null
            /\ folderSync' = Obj([pc |-> "fetch"])
    /\ UNCHANGED <<folderPath, storeVars, settings, returned, modalVars,
                   employeeCall, uploaderVars, settingsPageVars, gaugeVars>>

\* the button's onClick; the button is disabled while isLoading or while the
\* trimmed path is empty
ClickSync ==
    /\ ~isLoading
    /\ Trim(folderPath) # <<>>
    /\ handleSync

\* handleKeyPress(e) with e.key === 'Enter'
handleKeyPress ==
    /\ ~isLoading
    /\ handleSync

\* catch (err) and finally
CatchAndFinally(message) ==
    /\ error' = Obj(message)
    /\ result' = Null
    /\ isLoading' = FALSE
    /\ folderSync' = Null

\* await fetch(...) settles: with a response, or by rejecting
FetchSettles ==
    /\ folderSync # Null
    /\ The(folderSync).pc = "fetch"
    /\ \/ \E ok \in BOOLEAN :
             /\ folderSync' = Obj([pc |-> "json", ok |-> ok])
             /\ UNCHANGED <<isLoading, result, error>>
       \/ CatchAndFinally("Failed to fetch")
    /\ UNCHANGED <<folderPath, storeVars, settings, returned, modalVars,
                   employeeCall, uploaderVars, settingsPageVars, gaugeVars>>

\* a continuation that awaits refreshFromBackend() after every OK response
JsonSettles_AlwaysRefresh ==
    /\ folderSync # Null
    /\ The(folderSync).pc = "json"
    /\ \/ \E data \in SyncResponses :
             IF ~The(folderSync).ok
             THEN /\ error' = Obj(IF data.detail # Null THEN The(data.detail)
                                  ELSE "an error occurred")
                  /\ result' = Null
                  /\ isLoading' = FALSE
                  /\ folderSync' = Null
             ELSE /\ result' = Obj(data)
                  /\ folderSync' = Obj([pc |-> "refresh", ok |-> TRUE,
                                        data |-> data])
                  /\ UNCHANGED <<isLoading, error>>
       \/ CatchAndFinally("Unexpected token")
    /\ UNCHANGED <<folderPath, storeVars, settings, returned, modalVars,
                   employeeCall, uploaderVars, settingsPageVars, gaugeVars>>

\* await response.json() settles: with a body, or by rejecting
JsonSettles ==
    /\ folderSync # Null
    /\ The(folderSync).pc = "json"
    /\ \/ \E data \in SyncResponses :
             IF ~The(folderSync).ok
             THEN /\ error' = Obj(IF data.detail # Null THEN The(data.detail)
                                  ELSE "an error occurred")
                  /\ result' = Null
                  /\ isLoading' = FALSE
                  /\ folderSync' = Null
             ELSE /\ result' = Obj(data)
                  /\ IF Positive(data.total_records_saved)
                        \/ Positive(data.files_processed)
                     THEN /\ folderSync' = Obj([pc |-> "refresh", ok |-> TRUE,
                                                data |-> data])
                          /\ UNCHANGED <<isLoading, error>>
                     ELSE /\ isLoading' = FALSE
                          /\ folderSync' = Null
                          /\ UNCHANGED error
       \/ CatchAndFinally("Unexpected token")
    /\ UNCHANGED <<folderPath, storeVars, settings, returned, modalVars,
                   employeeCall, uploaderVars, settingsPageVars, gaugeVars>>

\* await refreshFromBackend() settles: by resolving, or by rejecting
RefreshSettles ==
    /\ folderSync # Null
    /\ The(folderSync).pc = "refresh"
    /\ \/ /\ isLoading' = FALSE
          /\ folderSync' = Null
          /\ UNCHANGED <<result, error>>
       \/ CatchAndFinally("refresh failed")
    /\ UNCHANGED <<folderPath, storeVars, settings, returned, modalVars,
                   employeeCall, uploaderVars, settingsPageVars, gaugeVars>>

-----------------------------------------------------------------------------
(* SettingsPage *)

\* Every setSyncStatus({...}) stores a new object; run, the number of the
\* handleSync invocation that stored it, tells the objects apart.
\* employeeSync is the invocation started last and where it stands, and
\* clearTimers holds the runs whose setTimeout has not fired yet.

\* what await syncApi.syncEmployees() resolves with: an error, data of a
\* successful or of a failed sync with or without stats, or neither
SyncOutcomes ==
    {[error |-> Obj("request failed"), data |-> Null],
     [error |-> Null, data |-> Null]}
    \cup {[error |-> Null,
           data |-> Obj([success |-> ok, message |-> "sync", stats |-> st])] :
             ok \in BOOLEAN, st \in {Null, Obj([total_errors |-> 0])}}

\* handleSync up to its await; the button is disabled while isSyncing
StartEmployeeSync ==
    /\ ~isSyncing
    /\ employeeSync.run < MaxSyncs
    /\ isSyncing' = TRUE
    /\ syncStatus' = Null
    /\ employeeSync' = [run |-> employeeSync.run + 1, pc |-> "await"]
    /\ UNCHANGED <<clearTimers, storeVars, settings, returned, modalVars,
                   employeeCall, uploaderVars, folderVars, gaugeVars>>

\* handleSync from the settling of syncApi.syncEmployees() to its end
EmployeeSyncSettles(outcome) ==
    LET run == employeeSync.run
    IN  /\ employeeSync.pc = "await"
        /\ syncStatus' =
               IF outcome.error # Null
               THEN Obj([success |-> FALSE, message |-> The(outcome.error),
                         stats |-> Null, run |-> run])
               ELSE IF outcome.data # Null
               THEN Obj([success |-> The(outcome.data).success,
                         message |-> The(outcome.data).message,
                         stats |-> The(outcome.data).stats, run |-> run])
               ELSE syncStatus
        /\ clearTimers' =
               IF outcome.error = Null /\ outcome.data # Null
                  /\ The(outcome.data).success
               THEN clearTimers \cup {run}
               ELSE clearTimers
        /\ isSyncing' = FALSE
        /\ employeeSync' = [employeeSync EXCEPT !.pc = "idle"]
        /\ UNCHANGED <<storeVars, settings, returned, modalVars, employeeCall,
                       uploaderVars, folderVars, gaugeVars>>

\* the callback of setTimeout(() => setSyncStatus(null), 5000) of a run
ClearTimerFires(run) ==
    /\ run \in clearTimers
    /\ clearTimers' = clearTimers \ {run}
    /\ syncStatus' = Null
    /\ UNCHANGED <<isSyncing, employeeSync, storeVars, settings, returned,
                   modalVars, employeeCall, uploaderVars, folderVars, gaugeVars>>

-----------------------------------------------------------------------------
(* MarginGaugeChart *)

\* the width of the gauge's scale, in percent of margin
GaugeScale == 15

\* targetMargin = 15 in the parameter list: the default replaces undefined only
targetMarginOf(props) ==
    IF props.targetMargin = Undefined THEN <<GaugeScale, 1>>
    ELSE <<NumOf(props.targetMargin), 1>>

\* Math.min(Math.max(currentMargin, 0), 15)
displayMargin(currentMargin) ==
    LET lower == IF RatLess(currentMargin, <<0, 1>>) THEN <<0, 1>> ELSE currentMargin
    IN  IF RatLess(<<GaugeScale, 1>>, lower) THEN <<GaugeScale, 1>> ELSE lower

\* (x / 15) * 100
ScalePercent(x) == Rat(x[1] * 100, x[2] * GaugeScale)

marginPercent(currentMargin) == ScalePercent(displayMargin(currentMargin))

\* the values of the two segments of the main arc
gaugeData(currentMargin) ==
    <<marginPercent(currentMargin),
      RatSub(<<100, 1>>, marginPercent(currentMargin))>>

\* the values of the three segments of the target indicator
targetIndicator(targetMargin) ==
    <<RatSub(ScalePercent(targetMargin), <<1, 1>>),
      <<2, 1>>,
      RatSub(RatSub(<<100, 1>>, ScalePercent(targetMargin)), <<1, 1>>)>>

MarginGaugeChart(props) ==
    Obj([gaugeData |-> gaugeData(props.currentMargin),
         targetIndicator |-> targetIndicator(targetMarginOf(props)),
         isAboveTarget |-> RatLeq(targetMarginOf(props), props.currentMargin)])

RenderMarginGauge ==
    /\ gaugeProps # Null
    /\ gauge' = MarginGaugeChart(The(gaugeProps))
    /\ UNCHANGED <<storeVars, settings, returned, modalVars, employeeCall,
                   uploaderVars, folderVars, settingsPageVars, gaugeProps>>

-----------------------------------------------------------------------------
(* EmployeeDetailModal: part_001 *)

\* comparePeriods(a, b) of @/lib/utils: by year, then by month, as numbers
comparePeriods(a, b) ==
    IF ParseInt(MatchYear(a)) # ParseInt(MatchYear(b))
    THEN ParseInt(MatchYear(a)) - ParseInt(MatchYear(b))
    ELSE ParseInt(MatchMonth(a)) - ParseInt(MatchMonth(b))

\* the employee's records, newest period first
employeeRecords(records, employee) ==
    SortWith(Filter(records, LAMBDA r : r.employeeId = employee.employeeId),
             LAMBDA a, b : comparePeriods(b.period, a.period))

\* (profit / employee.billingRate) * 100, with profit = billingRate - hourlyRate
rateCardMargin(employee) ==
    JsPercent(employee.billingRate - employee.hourlyRate, employee.billingRate)

\* record.billingAmount > 0 ? (record.grossProfit / record.billingAmount) * 100 : 0
recordMargin(record) ==
    IF record.billingAmount > 0 THEN JsPercent(record.grossProfit, record.billingAmount)
    ELSE Finite(<<0, 1>>)

\* what a render of EmployeeDetailModal computes and shows
EmployeeDetailModal(props, records) ==
    IF ~props.isOpen THEN Null
    ELSE LET rows == employeeRecords(records, props.employee)
         IN  Obj([profit |-> props.employee.billingRate - props.employee.hourlyRate,
                  margin |-> rateCardMargin(props.employee),
                  employeeRecords |-> rows,
                  recordMargins |-> MapSeq(rows, LAMBDA r : recordMargin(r))])

RenderEmployeeDetail ==
    /\ detail' = EmployeeDetailModal(detailProps, payrollRecords)
    /\ UNCHANGED <<storeVars, settings, returned, slipProps, slip, detailProps, uiVars>>

-----------------------------------------------------------------------------
(* The record calculator the records come from, as the specification gives it *)

\* hours * rate * multiplier, the multiplier in hundredths (sections 4.1 and 4.2)
ComponentAmount(hours, rate, percent) == (hours * rate * percent) \div 100

\* the stored value when the record carries one, the derived one otherwise
\* (section 4.3)
StoredOrDerived(stored, derived) == IF stored = Undefined THEN derived ELSE NumOf(stored)

\* round(grossSalary * rate), on the decimal rate, halves rounded up (section 4.3)
RoundedShare(grossSalary, rate) == MathRound(Rat(grossSalary * rate.num, rate.den))

\* the configured rate, the documented default when the setting is absent
ConfiguredRate(x, default) == IF x = Undefined THEN default ELSE NumOf(x)

\* computeRecordFinancials(record, employee, settings): the record with its
\* derived fields (sections 4.1 to 4.4)
computeRecordFinancials(raw, employee, s) ==
    LET buckets(rate) ==
              ComponentAmount(raw.workHours, rate, 100)
            + ComponentAmount(raw.overtimeHours, rate, 125)
            + ComponentAmount(raw.overtimeOver60h, rate, 150)
            + ComponentAmount(raw.nightHours, rate, 25)
            + ComponentAmount(raw.holidayHours, rate, 135)
        gross == buckets(employee.hourlyRate) + raw.paidLeaveAmount
                 + raw.transportAllowance + raw.nonBillableAllowances + raw.otherAllowances
        billing == buckets(employee.billingRate) + raw.otherAllowances
        benefits ==
              StoredOrDerived(raw.companySocialInsurance,
                              raw.socialInsurance + raw.welfarePension)
            + StoredOrDerived(raw.companyEmploymentInsurance,
                  RoundedShare(gross, ConfiguredRate(s.employment_insurance_rate, Rate009)))
            + StoredOrDerived(raw.companyWorkersComp,
                  RoundedShare(gross, ConfiguredRate(s.workers_comp_rate, Rate003)))
        cost == StoredOrDerived(raw.totalCompanyCost, gross + benefits)
    IN  [raw EXCEPT !.grossSalary = gross, !.billingAmount = billing,
                    !.grossProfit = billing - cost,
                    !.profitMargin = IF billing = 0 THEN <<0, 1>>
                                     ELSE Rat((billing - cost) * 100, billing)]

-----------------------------------------------------------------------------
(* The inputs of the modals *)

DefaultSettings ==
    [target_margin |-> Undefined, employment_insurance_rate |-> Undefined,
     workers_comp_rate |-> Undefined]

\* the period of the modal scenarios
SlipPeriod == PeriodToken(2025, 10)

SlipRecord == BaseRecord("E1", SlipPeriod)

SlipEmployee == Employee("1", "E1", "A", 1000, 1500)

\* settings.target_margin: not set, 0, 10
TargetSettings == {Undefined, Some(0), Some(10)}

\* settings.employment_insurance_rate and settings.workers_comp_rate: not set, 0, 0.006
RateSettings == {Undefined, Some(RateZero), Some(Rate006)}

\* records that differ in billing amount and gross profit, under each target
MarginScenarios ==
    {[record |-> [SlipRecord EXCEPT !.billingAmount = b, !.grossProfit = 5 * k],
      employee |-> SlipEmployee,
      settings |-> [DefaultSettings EXCEPT !.target_margin = t]] :
        b \in {0, 1000}, k \in (-2)..MaxProfitSteps, t \in TargetSettings}

\* records that differ in the paid-leave fields, for employees of several rates
LeaveScenarios ==
    {[record |-> [SlipRecord EXCEPT !.workDays = wd[1], !.workHours = wd[2],
                                    !.paidLeaveAmount = 1000 * a,
                                    !.paidLeaveHours = st[1], !.paidLeaveDays = st[2]],
      employee |-> Employee("1", "E1", "A", rates[1], rates[2]),
      settings |-> DefaultSettings] :
        wd \in {0, 20} \X {0, 150, 160},
        a \in 0..MaxLeaveUnits,
        st \in {<<0, 0>>, <<8, 1>>, <<16, 0>>},
        rates \in {0, 1000, 1200} \X {0, 1500}}

\* records that differ in gross salary and in the company costs they carry,
\* under each pair of rates
CostScenarios ==
    {[record |-> [SlipRecord EXCEPT !.grossSalary = g,
                                    !.socialInsurance = ins[1], !.welfarePension = ins[2],
                                    !.companySocialInsurance = cs[1],
                                    !.companyEmploymentInsurance = cs[2],
                                    !.companyWorkersComp = cs[3],
                                    !.totalCompanyCost = cs[4]],
      employee |-> SlipEmployee,
      settings |-> [DefaultSettings EXCEPT !.employment_insurance_rate = rs[1],
                                           !.workers_comp_rate = rs[2]]] :
        g \in {0} \cup {172500 + 500 * k : k \in 0..MaxSalarySteps},
        ins \in {<<0, 0>>, <<8000, 15000>>},
        cs \in {Undefined, Some(0), Some(23000), Some(25000)}
               \X {Undefined, Some(0), Some(2000)}
               \X {Undefined, Some(0), Some(600)}
               \X {Undefined, Some(0), Some(200000)},
        rs \in RateSettings \X RateSettings}

\* every deduction of a record, the five the slip lists below its total too
AllDeductions(record) ==
    record.socialInsurance + record.welfarePension + record.employmentInsurance
    + record.incomeTax + record.residentTax
    + record.rentDeduction + record.utilitiesDeduction + record.mealDeduction
    + record.advancePayment + record.yearEndAdjustment + record.otherDeductions

\* records whose net salary is the gross salary less every deduction, for a
\* gross salary above and below the deductions
DeductionScenarios ==
    {[record |-> LET r == [SlipRecord EXCEPT
                              !.grossSalary = g,
                              !.socialInsurance = 8000 * st, !.welfarePension = 15000 * st,
                              !.employmentInsurance = 1000 * st, !.incomeTax = 5000 * st,
                              !.residentTax = 7000 * st, !.otherDeductions = 500 * st,
                              !.rentDeduction = 30000 * d[1],
                              !.utilitiesDeduction = 4000 * d[2],
                              !.mealDeduction = 6000 * d[3],
                              !.advancePayment = 10000 * d[4],
                              !.yearEndAdjustment = 2000 * d[5]]
                 IN  [r EXCEPT !.netSalary = g - AllDeductions(r)],
      employee |-> SlipEmployee,
      settings |-> DefaultSettings] :
        g \in {20000, 200000}, st \in {0, 1},
        d \in {0, 1} \X {0, 1} \X {0, 1} \X {0, 1} \X {0, 1}}

ModalScenarios ==
    MarginScenarios \cup LeaveScenarios \cup CostScenarios \cup DeductionScenarios

\* raw records that differ in hours and allowances, for two billing rates
BillingInputs ==
    {[record |-> [SlipRecord EXCEPT !.workHours = h[1], !.overtimeHours = h[2],
                                    !.overtimeOver60h = h[3], !.nightHours = h[4],
                                    !.holidayHours = h[5],
                                    !.otherAllowances = al[1],
                                    !.transportAllowance = al[2],
                                    !.nonBillableAllowances = al[3]],
      employee |-> Employee("1", "E1", "A", 1000, b),
      settings |-> DefaultSettings] :
        h \in {0, 160} \X (0..MaxHours) \X (0..MaxHours) \X (0..MaxHours) \X (0..MaxHours),
        al \in {0, 5000} \X {0, 10000} \X {0, 3000},
        b \in {1500, 1520}}

\* raw records that differ in hours, deductions and the company costs they
\* carry, under each pair of rates
CostInputs ==
    {[record |-> [SlipRecord EXCEPT !.workHours = h[1], !.overtimeHours = h[2],
                                    !.socialInsurance = ins[1], !.welfarePension = ins[2],
                                    !.companySocialInsurance = cs[1],
                                    !.companyEmploymentInsurance = cs[2],
                                    !.companyWorkersComp = cs[3],
                                    !.totalCompanyCost = cs[4]],
      employee |-> SlipEmployee,
      settings |-> [DefaultSettings EXCEPT !.employment_insurance_rate = rs[1],
                                           !.workers_comp_rate = rs[2]]] :
        h \in {0, 160} \X {0, 10},
        ins \in {<<0, 0>>, <<8000, 15000>>},
        cs \in {Undefined, Some(0), Some(25000)}
               \X {Undefined, Some(0), Some(2000)}
               \X {Undefined, Some(0), Some(600)}
               \X {Undefined, Some(0), Some(200000)},
        rs \in RateSettings \X RateSettings}

PipelineInputs == BillingInputs \cup CostInputs

-----------------------------------------------------------------------------
(* The components as mounted *)

IdleUploader == files = <<>> /\ uploads = <<>>

IdleFolderSync ==
    /\ folderPath = DefaultFolderPath
    /\ isLoading = FALSE
    /\ result = Null
    /\ error = Null
    /\ folderSync = Null

IdleSettingsPage ==
    /\ isSyncing = FALSE
    /\ syncStatus = Null
    /\ employeeSync = [run |-> 0, pc |-> "idle"]
    /\ clearTimers = {}

IdleGauge == gaugeProps = Null /\ gauge = Null

\* every component outside the store and the modals as it is when mounted
IdleUi ==
    /\ employeeCall = Null
    /\ IdleUploader
    /\ IdleFolderSync
    /\ IdleSettingsPage
    /\ IdleGauge

-----------------------------------------------------------------------------
(* Specifications *)

ClosedSlip == [isOpen |-> FALSE, record |-> SlipRecord, employee |-> SlipEmployee]

ClosedDetail == [isOpen |-> FALSE, employee |-> SlipEmployee]

\* the store as created, no modal open
Init ==
    /\ settings = DefaultSettings
    /\ employees = <<>>
    /\ payrollRecords = <<>>
    /\ availablePeriods = <<>>
    /\ selectedPeriod = <<>>
    /\ dashboardStats = Null
    /\ returned = Null
    /\ slipProps = ClosedSlip
    /\ slip = Null
    /\ detailProps = ClosedDetail
    /\ detail = Null
    /\ IdleUi

\* the lists addPayrollRecords is called with
Batches == UNION {[1..n -> RecordPool] : n \in 1..MaxBatch}

Next ==
    \/ loadSampleData
    \/ \E records \in Batches : addPayrollRecords(records)
    \/ \E e \in EmployeePool : updateEmployee(e)
    \/ \E id \in {"1", "2"} : deleteEmployee(id)
    \/ \E p \in AskedPeriods : setSelectedPeriod(p)
    \/ \E p \in AskedPeriods : calculateMonthlySummary(p)

Spec == Init /\ [][Next]_vars

\* the store and the modals as created
IdleStore ==
    /\ settings = DefaultSettings
    /\ employees = <<>>
    /\ payrollRecords = <<>>
    /\ availablePeriods = <<>>
    /\ selectedPeriod = <<>>
    /\ dashboardStats = Null
    /\ returned = Null
    /\ slipProps = ClosedSlip
    /\ slip = Null
    /\ detailProps = ClosedDetail
    /\ detail = Null

InitUploader ==
    /\ IdleStore
    /\ employeeCall = Null
    /\ IdleUploader
    /\ IdleFolderSync
    /\ IdleSettingsPage
    /\ IdleGauge

NextUploader ==
    \/ \E count \in 1..MaxFiles : onDrop(count)
    \/ \E fileId \in 1..MaxFiles, inc \in Increments : IntervalTick(fileId, inc)
    \/ \E fileId \in 1..MaxFiles, success \in BOOLEAN, count \in RecordCounts :
          ProcessingTimeout(fileId, success, count)
    \/ \E fileId \in 1..MaxFiles : removeFile(fileId)

SpecUploader == InitUploader /\ [][NextUploader]_vars

\* the interval keeps firing while it is set, with increments that are
\* positive again and again, and the timeout fires once it is set
UploaderTimersRun ==
    \A fileId \in 1..MaxFiles :
        /\ WF_vars(\E inc \in Increments \ {0} : IntervalTick(fileId, inc))
        /\ WF_vars(\E success \in BOOLEAN, count \in RecordCounts :
                       ProcessingTimeout(fileId, success, count))

SpecUploaderFair == SpecUploader /\ UploaderTimersRun

\* the paths typed into the input
FolderPaths == {DefaultFolderPath, <<>>, <<32>>, <<32, 68, 58, 32>>}

InitFolderSync ==
    /\ IdleStore
    /\ employeeCall = Null
    /\ IdleUploader
    /\ IdleFolderSync
    /\ IdleSettingsPage
    /\ IdleGauge

NextFolderSync ==
    \/ \E path \in FolderPaths : setFolderPath(path)
    \/ ClickSync
    \/ handleKeyPress
    \/ FetchSettles
    \/ JsonSettles
    \/ RefreshSettles

SpecFolderSync == InitFolderSync /\ [][NextFolderSync]_vars

\* every promise handleSync awaits settles
FolderSyncAwaitsSettle ==
    /\ WF_vars(FetchSettles)
    /\ WF_vars(JsonSettles)
    /\ WF_vars(RefreshSettles)

SpecFolderSyncFair == SpecFolderSync /\ FolderSyncAwaitsSettle

InitSettingsPage ==
    /\ IdleStore
    /\ employeeCall = Null
    /\ IdleUploader
    /\ IdleFolderSync
    /\ IdleSettingsPage
    /\ IdleGauge

NextSettingsPage ==
    \/ StartEmployeeSync
    \/ \E outcome \in SyncOutcomes : EmployeeSyncSettles(outcome)
    \/ \E run \in 1..MaxSyncs : ClearTimerFires(run)

SpecSettingsPage == InitSettingsPage /\ [][NextSettingsPage]_vars

\* the props the gauge is mounted with: any margin in halves of a percent, and
\* a target of 0..15 percent or none
GaugeInputs ==
    {[currentMargin |-> Rat(n, 2), targetMargin |-> t] :
        n \in (0 - MaxMarginHalves)..MaxMarginHalves,
        t \in {Undefined} \cup {Some(k) : k \in 0..GaugeScale}}

InitGauge ==
    /\ IdleStore
    /\ employeeCall = Null
    /\ IdleUploader
    /\ IdleFolderSync
    /\ IdleSettingsPage
    /\ gaugeProps \in {Obj(p) : p \in GaugeInputs}
    /\ gauge = Null

NextGauge == RenderMarginGauge

SpecGauge == InitGauge /\ [][NextGauge]_vars

\* the store under the actions that load, add and edit, with no call of
\* setSelectedPeriod
NextData ==
    \/ loadSampleData
    \/ \E records \in Batches : addPayrollRecords(records)
    \/ \E e \in EmployeePool : updateEmployee(e)
    \/ \E id \in {"1", "2"} : deleteEmployee(id)

SpecData == Init /\ [][NextData]_vars

\* a modal over one record of the store, its employee and the settings
ModalState(record, employee, s, isOpen) ==
    /\ settings = s
    /\ employees = <<employee>>
    /\ payrollRecords = <<record>>
    /\ availablePeriods = PeriodsOf(<<record>>)
    /\ selectedPeriod = record.period
    /\ dashboardStats = Null
    /\ returned = Null
    /\ slipProps = [isOpen |-> isOpen, record |-> record, employee |-> employee]
    /\ slip = Null
    /\ detailProps = [isOpen |-> isOpen, employee |-> employee]
    /\ detail = Null
    /\ IdleUi

\* the modals over any typed record
InitModal ==
    \E sc \in ModalScenarios, isOpen \in BOOLEAN :
        ModalState(sc.record, sc.employee, sc.settings, isOpen)

NextModal == RenderPayrollSlip \/ RenderEmployeeDetail

SpecModal == InitModal /\ [][NextModal]_vars

\* the payroll slip over the records the record calculator produces
InitPipeline ==
    \E sc \in PipelineInputs, isOpen \in BOOLEAN :
        ModalState(computeRecordFinancials(sc.record, sc.employee, sc.settings),
                   sc.employee, sc.settings, isOpen)

NextPipeline == RenderPayrollSlip

SpecPipeline == InitPipeline /\ [][NextPipeline]_vars

-----------------------------------------------------------------------------
(* calculateMonthlySummary over stores of many records *)

\* the employeeId of the record at each position of a scenario's list
SummaryIds == <<"E1", "E2", "E3", "E4", "E5", "E6", "E7", "E8">>

\* billing amount, gross profit and gross salary of the records of the summary
\* scenarios: margins of 10 %, 20 % and -5 %
SummaryKinds ==
    {[billingAmount |-> 1000, grossProfit |-> 100, grossSalary |-> 700],
     [billingAmount |-> 1000, grossProfit |-> 200, grossSalary |-> 650],
     [billingAmount |-> 2000, grossProfit |-> -100, grossSalary |-> 1500]}

\* the record of the employee at position i
SummaryRecord(i, period, kind) ==
    [BaseRecord(SummaryIds[i], period) EXCEPT
        !.grossSalary = kind.grossSalary, !.billingAmount = kind.billingAmount,
        !.grossProfit = kind.grossProfit,
        !.profitMargin = Rat(kind.grossProfit * 100, kind.billingAmount),
        !.paidLeaveHours = 8, !.transportAllowance = 10,
        !.companySocialInsurance = Some(60), !.companyEmploymentInsurance = Some(6),
        !.companyWorkersComp = Some(2),
        !.totalCompanyCost = Some(kind.billingAmount - kind.grossProfit)]

\* a record whose total company cost was never derived
UnderivedRecord(i, period) ==
    [SummaryRecord(i, period, CHOOSE k \in SummaryKinds : k.grossProfit = 200)
        EXCEPT !.totalCompanyCost = Undefined]

\* period tokens with no four digits before 年, with no digits before 月, with
\* neither, and with more digits than the patterns take
MalformedPeriods ==
    {<<Digit(2), Digit(5), Nen, Digit(3), Gatsu>>,
     Digits(2024) \o <<Nen>>,
     <<Digit(7)>>,
     Digits(12025) \o <<Nen>> \o Digits(112) \o <<Gatsu>>}

\* lists of records of one period, but for the first or the last record, which
\* may be of the month before
RankingStores ==
    UNION {{[i \in 1..n |-> SummaryRecord(i, IF i = odd THEN PeriodToken(2025, 9)
                                             ELSE PeriodToken(2025, 10), kinds[i])] :
               kinds \in [1..n -> SummaryKinds], odd \in {0, 1, n}} :
           n \in 0..MaxSummaryRecords}

\* lists in which any record may lack its total company cost
UnderivedStores ==
    UNION {{[i \in 1..n |-> IF i \in missing
                            THEN UnderivedRecord(i, PeriodToken(2025, 10))
                            ELSE SummaryRecord(i, PeriodToken(2025, 10), kinds[i])] :
               kinds \in [1..n -> SummaryKinds], missing \in (SUBSET (1..n)) \ {{}}} :
           n \in 1..2}

\* lists of records stored under any token
TokenStores ==
    UNION {{[i \in 1..n |-> SummaryRecord(i, tokens[i],
                                CHOOSE k \in SummaryKinds : k.grossProfit = 100)] :
               tokens \in [1..n -> MalformedPeriods \cup StorePeriods]} :
           n \in 1..2}

InitSummary ==
    /\ payrollRecords \in RankingStores \cup UnderivedStores \cup TokenStores
    /\ settings = DefaultSettings
    /\ employees = sampleEmployees
    /\ availablePeriods = PeriodsOf(payrollRecords)
    /\ selectedPeriod = PeriodToken(2025, 10)
    /\ dashboardStats = Null
    /\ returned = Null
    /\ slipProps = ClosedSlip
    /\ slip = Null
    /\ detailProps = ClosedDetail
    /\ detail = Null
    /\ IdleUi

\* calls with the periods of the stored records and with a period of none
NextSummary ==
    \E p \in {r.period : r \in Range(payrollRecords)} \cup {PeriodToken(2025, 1)} :
        calculateMonthlySummary(p)

SpecSummary == InitSummary /\ [][NextSummary]_vars

-----------------------------------------------------------------------------
(* updateEmployee and deleteEmployee over lists of employees *)

\* the employees of the lists, two of them with the same id
ListedEmployees ==
    {Employee("1", "E1", "A", 1000, 1500), Employee("1", "E9", "A1", 900, 1500),
     Employee("2", "E2", "B", 1200, 1500)}

EmployeeLists == UNION {[1..n -> ListedEmployees] : n \in 0..MaxEmployees}

\* the calls: updateEmployee(employee) and deleteEmployee(id)
EmployeeCalls ==
    {[name |-> "updateEmployee", employee |-> e, id |-> e.id] : e \in EmployeePool}
    \cup {[name |-> "deleteEmployee", employee |-> Null, id |-> id] : id \in {"1", "2", "3"}}

InitEmployees ==
    /\ employees \in EmployeeLists
    /\ employeeCall \in {Obj(c) : c \in EmployeeCalls}
    /\ payrollRecords = samplePayrollRecords
    /\ availablePeriods = PeriodsOf(samplePayrollRecords)
    /\ selectedPeriod = PeriodToken(2025, 10)
    /\ dashboardStats = Null
    /\ settings = DefaultSettings
    /\ returned = Null
    /\ slipProps = ClosedSlip
    /\ slip = Null
    /\ detailProps = ClosedDetail
    /\ detail = Null
    /\ IdleUploader
    /\ IdleFolderSync
    /\ IdleSettingsPage
    /\ IdleGauge

\* the caller makes its call
NextEmployees ==
    \/ /\ The(employeeCall).name = "updateEmployee"
       /\ updateEmployee(The(employeeCall).employee)
    \/ /\ The(employeeCall).name = "deleteEmployee"
       /\ deleteEmployee(The(employeeCall).id)

SpecEmployees == InitEmployees /\ [][NextEmployees]_vars

-----------------------------------------------------------------------------
(* Claims *)

\* the paid-leave derivations the slip rendered: the panel, the pay-component
\* row and the cost-breakdown row
RenderedLeaveSites ==
    IF slip = Null THEN {}
    ELSE {The(x) : x \in {The(slip).paidLeavePanel, The(slip).paidLeavePayRow,
                          The(slip).paidLeaveCostRow} \ {Null}}

\* C1: every margin percentage the modals compute is a defined number: the
\* per-record margin of PayrollSlipModal and of EmployeeDetailModal is 0 when
\* billingAmount = 0, and the rate-card margin of EmployeeDetailModal is
\* neither NaN nor infinite for an employee with billingRate >= 0.
C1_MarginsDefined ==
    /\ slip # Null =>
          /\ The(slip).marginRate.kind = "finite"
          /\ slipProps.record.billingAmount = 0 => The(slip).marginRate = Finite(<<0, 1>>)
    /\ detail # Null =>
          /\ \A i \in 1..Len(The(detail).recordMargins) :
                /\ The(detail).recordMargins[i].kind = "finite"
                /\ The(detail).employeeRecords[i].billingAmount = 0
                      => The(detail).recordMargins[i] = Finite(<<0, 1>>)
          /\ detailProps.employee.billingRate >= 0 => The(detail).margin.kind = "finite"

\* C2: getMarginColor assigns exactly the band of the margin m under the
\* target t in force, lower bounds inclusive: on-target (emerald) when m >= t,
\* near-target (green) when t-3 <= m < t, warning (amber) when t-7 <= m < t-3,
\* critical (red) when m < t-7.
C2_MarginBands ==
    slip # Null =>
        LET m == The(slip).marginRate.q
            t == TargetOf(settings)
            color == The(slip).marginColor
            geq(x) == RatLeq(<<x, 1>>, m)
        IN  /\ The(slip).marginRate.kind = "finite"
            /\ color \in {"emerald", "green", "amber", "red"}
            /\ color = "emerald" <=> geq(t)
            /\ color = "green" <=> (geq(t - 3) /\ ~geq(t))
            /\ color = "amber" <=> (geq(t - 7) /\ ~geq(t - 3))
            /\ color = "red" <=> ~geq(t - 7)

\* C2 witness: a slip whose margin is exactly t-3 under a configured target and
\* is shown near-target
C2_Witness ==
    /\ slip # Null
    /\ settings.target_margin = Some(10)
    /\ The(slip).marginRate = Finite(<<7, 1>>)
    /\ The(slip).marginColor = "green"

\* C3: when the employee's hourlyRate is 0, every paid-leave derivation of the
\* slip yields 0 hours and 0 days, whatever the record stores.
C3_NoLeaveWithoutRate ==
    (slip # Null /\ slipProps.employee.hourlyRate = 0) =>
        \A site \in RenderedLeaveSites : site.hours = <<0, 1>> /\ site.days = <<0, 1>>

\* the distance of two rationals
RatDist(p, q) == LET d == RatSub(p, q) IN <<Abs(d[1]), d[2]>>

C5_StoredValueUsed ==
    slip # Null =>
        LET r == slipProps.record
        IN  /\ r.companySocialInsurance # Undefined
                => The(slip).companySocialIns = NumOf(r.companySocialInsurance)
            /\ r.companyEmploymentInsurance # Undefined
                => The(slip).companyEmploymentIns = NumOf(r.companyEmploymentInsurance)
            /\ r.companyWorkersComp # Undefined
                => The(slip).companyWorkersComp = NumOf(r.companyWorkersComp)
            /\ r.totalCompanyCost # Undefined
                => The(slip).totalCompanyCost = NumOf(r.totalCompanyCost)

\* C6: the benefit rows the slip shows add up to the total it shows:
\* totalCompanyBenefits = companyHealthInsurance + companyWelfarePension +
\* companyEmploymentInsurance + companyWorkersComp, the first two being the
\* record's socialInsurance and welfarePension.
C6_BenefitRowsAddUp ==
    slip # Null =>
        /\ The(slip).companyHealthIns = slipProps.record.socialInsurance
        /\ The(slip).companyWelfarePension = slipProps.record.welfarePension
        /\ The(slip).totalCompanyBenefits =
               The(slip).companyHealthIns + The(slip).companyWelfarePension
               + The(slip).companyEmploymentIns + The(slip).companyWorkersComp

\* C7: when the record stores neither, companyEmploymentInsurance and
\* companyWorkersComp are grossSalary times the rate, rounded with halves up;
\* for grossSalary 172500 under the rates 0.009 and 0.003 they are 1553 and
\* 518, and with socialInsurance 8000 and welfarePension 15000 the benefits
\* are 25071 and the fallback total company cost is 197571.
C7_RoundedShares ==
    slip # Null =>
        LET r == slipProps.record
            example ==
                /\ r.grossSalary = 172500
                /\ r.socialInsurance = 8000 /\ r.welfarePension = 15000
                /\ r.companySocialInsurance = Undefined
                /\ r.totalCompanyCost = Undefined
                /\ empInsRate(settings) = Rate009
                /\ workersCompRate(settings) = Rate003
        IN  (r.companyEmploymentInsurance = Undefined /\ r.companyWorkersComp = Undefined) =>
                /\ The(slip).companyEmploymentIns =
                       RoundedShare(r.grossSalary, empInsRate(settings))
                /\ The(slip).companyWorkersComp =
                       RoundedShare(r.grossSalary, workersCompRate(settings))
                /\ example =>
                       /\ The(slip).companyEmploymentIns = 1553
                       /\ The(slip).companyWorkersComp = 518
                       /\ The(slip).totalCompanyBenefits = 25071
                       /\ The(slip).totalCompanyCost = 197571

C9_ProfitIsBillingMinusCost ==
    slip # Null =>
        The(slip).grossProfit = The(slip).billingAmount - The(slip).totalCompanyCost

\* how many stored records have the period
MatchCount(period) ==
    Cardinality({i \in 1..Len(payrollRecords) : payrollRecords[i].period = period})

\* C10: calculateMonthlySummary(period) returns null exactly when no stored
\* record has the period; otherwise it returns a summary of the period asked
\* for whose totalEmployees is the number of records of that period.
C10_NullIffNoMatch ==
    returned # Null =>
        LET period == The(returned).period
            summary == The(returned).result
        IN  /\ summary = Null <=> MatchCount(period) = 0
            /\ summary # Null =>
                  /\ The(summary).period = period
                  /\ The(summary).totalEmployees = MatchCount(period)

\* C10 witness: a summary of two records returned while the store also holds a
\* record of another period
C10_Witness ==
    /\ returned # Null
    /\ The(returned).result # Null
    /\ The(The(returned).result).totalEmployees = 2
    /\ Len(payrollRecords) = 3

\* the positions in payrollRecords of the records of the period
MatchingIndices(period) ==
    {i \in 1..Len(payrollRecords) : payrollRecords[i].period = period}

RECURSIVE SumOver(_, _)
\* the sum of f[i] over the i in I
SumOver(I, f) ==
    IF I = {} THEN 0
    ELSE LET i == CHOOSE j \in I : TRUE IN f[i] + SumOver(I \ {i}, f)

RECURSIVE RatSumOver(_, _)
\* the sum of the rationals f[i] over the i in I
RatSumOver(I, f) ==
    IF I = {} THEN <<0, 1>>
    ELSE LET i == CHOOSE j \in I : TRUE IN RatAdd(f[i], RatSumOver(I \ {i}, f))

\* C11: the summary's totalRevenue, totalSalaryCost, totalCompanyCost and
\* totalGrossProfit are the sums of billingAmount, grossSalary,
\* totalCompanyCost and grossProfit over exactly the stored records of the
\* period asked for, each counted once (totalCompanyCost for records that all
\* carry one).
C11_TotalsOfPeriod ==
    (returned # Null /\ The(returned).result # Null) =>
        LET I == MatchingIndices(The(returned).period)
            summary == The(The(returned).result)
        IN  /\ summary.totalRevenue = SumOver(I, [i \in I |-> payrollRecords[i].billingAmount])
            /\ summary.totalSalaryCost = SumOver(I, [i \in I |-> payrollRecords[i].grossSalary])
            /\ summary.totalGrossProfit = SumOver(I, [i \in I |-> payrollRecords[i].grossProfit])
            /\ (\A i \in I : payrollRecords[i].totalCompanyCost # Undefined) =>
                  summary.totalCompanyCost =
                      Finite(<<SumOver(I, [i \in I |-> NumOf(payrollRecords[i].totalCompanyCost)]), 1>>)

\* C11 witness: a summary of several records of different amounts, returned
\* while the store holds a record of another period
C11_Witness ==
    /\ returned # Null
    /\ The(returned).result # Null
    /\ The(The(returned).result).totalEmployees = 3
    /\ Len(payrollRecords) = 4
    /\ The(The(returned).result).totalRevenue = 4000
    /\ The(The(returned).result).totalGrossProfit = 200
    /\ The(The(returned).result).totalCompanyCost = Finite(<<3800, 1>>)

\* C12: for a period with n >= 1 records, averageMargin is the sum of the
\* records' own profitMargin over n; it is not the margin of the totals.
C12_AverageOfMargins ==
    (returned # Null /\ The(returned).result # Null) =>
        LET I == MatchingIndices(The(returned).period)
            summary == The(The(returned).result)
        IN  summary.averageMargin =
                RatDiv(RatSumOver(I, [i \in I |-> payrollRecords[i].profitMargin]),
                       <<Cardinality(I), 1>>)

\* C12 witness: a summary whose averageMargin differs from the margin of its
\* totals
C12_Witness ==
    /\ returned # Null
    /\ The(returned).result # Null
    /\ The(The(returned).result).totalEmployees >= 2
    /\ The(The(returned).result).totalRevenue > 0
    /\ The(The(returned).result).averageMargin #
           Rat(The(The(returned).result).totalGrossProfit * 100,
               The(The(returned).result).totalRevenue)

\* the place of record i among the records I by descending gross profit,
\* earlier records first among equals
TopRank(I, i) ==
    1 + Cardinality({j \in I :
            \/ payrollRecords[j].grossProfit > payrollRecords[i].grossProfit
            \/ payrollRecords[j].grossProfit = payrollRecords[i].grossProfit /\ j < i})

\* the place of record i among the records I by ascending gross profit,
\* earlier records first among equals
BottomRank(I, i) ==
    1 + Cardinality({j \in I :
            \/ payrollRecords[j].grossProfit < payrollRecords[i].grossProfit
            \/ payrollRecords[j].grossProfit = payrollRecords[i].grossProfit /\ j < i})

\* C13: topProfitEmployees lists the min(5, n) records of the period with the
\* largest grossProfit, largest first, and bottomProfitEmployees the min(5, n)
\* with the smallest, smallest first; records of equal grossProfit appear in
\* their order in payrollRecords.
C13_TopAndBottom ==
    (returned # Null /\ The(returned).result # Null) =>
        LET I == MatchingIndices(The(returned).period)
            summary == The(The(returned).result)
            k == IF Cardinality(I) < TopN THEN Cardinality(I) ELSE TopN
            listed(list, rank, i) ==
                /\ list[rank].employeeId = payrollRecords[i].employeeId
                /\ list[rank].profit = payrollRecords[i].grossProfit
        IN  /\ Len(summary.topProfitEmployees) = k
            /\ Len(summary.bottomProfitEmployees) = k
            /\ \A i \in I :
                  /\ TopRank(I, i) <= k => listed(summary.topProfitEmployees, TopRank(I, i), i)
                  /\ BottomRank(I, i) <= k
                        => listed(summary.bottomProfitEmployees, BottomRank(I, i), i)

\* C13 witness: six records of the period, the last five of equal profit, so
\* that the fifth place of each list is decided among equals
C13_Witness ==
    /\ returned # Null
    /\ The(returned).result # Null
    /\ The(The(returned).result).totalEmployees = 6
    /\ The(The(returned).result).topProfitEmployees[1].profit = 200
    /\ The(The(returned).result).topProfitEmployees[5].employeeId = "E5"
    /\ The(The(returned).result).bottomProfitEmployees[1].employeeId = "E2"
    /\ The(The(returned).result).bottomProfitEmployees[5].employeeId = "E6"

\* year * 12 + month of a well-formed period token
PeriodMonths(token) == ParseInt(MatchYear(token)) * 12 + ParseInt(MatchMonth(token))

\* C14: availablePeriods is ordered newest first by numeric (year, month), so
\* that 2025年10月 precedes 2025年9月, and so is the record list of
\* EmployeeDetailModal.
C14_NewestFirst ==
    /\ \A i, j \in 1..Len(availablePeriods) :
          i < j => PeriodMonths(availablePeriods[i]) > PeriodMonths(availablePeriods[j])
    /\ detail # Null =>
          \A i, j \in 1..Len(The(detail).employeeRecords) :
              i < j => PeriodMonths(The(detail).employeeRecords[i].period)
                       >= PeriodMonths(The(detail).employeeRecords[j].period)

\* the records of the period whose total company cost is a number
DerivedIndices(period) ==
    {i \in MatchingIndices(period) : payrollRecords[i].totalCompanyCost # Undefined}

\* C15: a record of the period whose derived fields are missing is left out of
\* the summary, which counts and totals the remaining records in defined
\* numbers.
C15_UnderivedLeftOut ==
    (returned # Null /\ The(returned).result # Null) =>
        LET I == DerivedIndices(The(returned).period)
            summary == The(The(returned).result)
        IN  /\ summary.totalEmployees = Cardinality(I)
            /\ summary.totalCompanyCost.kind = "finite"
            /\ summary.totalCompanyCost =
                   Finite(<<SumOver(I, [i \in I |-> NumOf(payrollRecords[i].totalCompanyCost)]), 1>>)
            /\ summary.totalRevenue = SumOver(I, [i \in I |-> payrollRecords[i].billingAmount])

\* C16: payrollRecords holds at most one record per (employeeId, period).
C16_OneRecordPerKey ==
    \A i, j \in 1..Len(payrollRecords) :
        (/\ payrollRecords[i].employeeId = payrollRecords[j].employeeId
         /\ payrollRecords[i].period = payrollRecords[j].period) => i = j

\* C17: a call of calculateMonthlySummary leaves every store field as it was,
\* the order of payrollRecords included, and a call that follows a call with
\* the same period returns an equal summary.
C17_SummaryIsPure ==
    [][returned' # Null =>
          /\ storeVars' = storeVars
          /\ settings' = settings
          /\ (returned # Null /\ The(returned').period = The(returned).period)
                => returned' = returned]_vars

\* C17 witness: a summary returned for a period whose stored records are not
\* in the order of either sort
C17_Witness ==
    /\ returned # Null
    /\ The(returned).result # Null
    /\ \E i, j, k \in MatchingIndices(The(returned).period) :
          /\ i < j /\ j < k
          /\ payrollRecords[i].grossProfit < payrollRecords[j].grossProfit
          /\ payrollRecords[j].grossProfit > payrollRecords[k].grossProfit

\* the value of a setting: the configured number, or the default when the
\* setting is absent
Configured(x, default) == IF x = Undefined THEN default ELSE NumOf(x)

\* C18: the default of target_margin, employment_insurance_rate and
\* workers_comp_rate (15, 0.009, 0.003) is used exactly when the setting is
\* absent; a configured value, 0 included, is the value used in banding and
\* in the employer costs.
C18_ConfiguredValueUsed ==
    slip # Null =>
        LET r == slipProps.record
            target == Configured(settings.target_margin, 15)
        IN  /\ The(slip).target = target
            /\ The(slip).marginColor = "emerald"
                   <=> RatLeq(<<target, 1>>, The(slip).marginRate.q)
            /\ r.companyEmploymentInsurance = Undefined =>
                   The(slip).companyEmploymentIns =
                       RoundProduct(r.grossSalary,
                                    Configured(settings.employment_insurance_rate, Rate009))
            /\ r.companyWorkersComp = Undefined =>
                   The(slip).companyWorkersComp =
                       RoundProduct(r.grossSalary,
                                    Configured(settings.workers_comp_rate, Rate003))

\* C19: for a record whose netSalary is grossSalary less all its deductions,
\* the deduction total of the slip is the sum of all deduction fields of the
\* record, that is grossSalary - netSalary, and the net salary is shown as
\* stored, negative or not.
C19_DeductionsAddUp ==
    (slip # Null /\ slipProps.record.netSalary
                        = slipProps.record.grossSalary - AllDeductions(slipProps.record)) =>
        /\ The(slip).totalDeductions = AllDeductions(slipProps.record)
        /\ The(slip).totalDeductions = The(slip).grossSalary - The(slip).netSalary
        /\ The(slip).netSalary = slipProps.record.netSalary

\* the first position of the mark in s that has at least `need` digits
\* right before it; 0 when there is none
FirstMarked(s, mark, need) ==
    LET at == {k \in 1..Len(s) : /\ s[k] = mark
                                 /\ k > need
                                 /\ \A j \in 1..need : IsDigit(s[k - j])}
    IN  IF at = {} THEN 0 ELSE CHOOSE k \in at : \A l \in at : k <= l

\* C20: for a period token with no four digits before 年 the summary's year is
\* 2025, with no digit before 月 its month is 1; otherwise the year is the
\* number of the four digits before 年 and the month the number of the one or
\* two digits before 月.
C20_YearAndMonth ==
    (returned # Null /\ The(returned).result # Null) =>
        LET s == The(returned).period
            summary == The(The(returned).result)
            y == FirstMarked(s, Nen, 4)
            m == FirstMarked(s, Gatsu, 1)
        IN  /\ summary.year = IF y = 0 THEN 2025 ELSE ParseInt(SubSeq(s, y - 4, y - 1))
            /\ summary.month =
                   IF m = 0 THEN 1
                   ELSE IF m > 2 /\ IsDigit(s[m - 2]) THEN ParseInt(SubSeq(s, m - 2, m - 1))
                   ELSE ParseInt(SubSeq(s, m - 1, m - 1))
            /\ \A mm \in 1..12 :
                  s = PeriodToken(2025, mm) => summary.year = 2025 /\ summary.month = mm

\* C20 witness: a summary of records stored under a token with neither a year
\* nor a month, which gets both defaults
C20_Witness ==
    /\ returned # Null
    /\ The(returned).result # Null
    /\ FirstMarked(The(returned).period, Nen, 4) = 0
    /\ FirstMarked(The(returned).period, Gatsu, 1) = 0
    /\ The(The(returned).result).year = 2025
    /\ The(The(returned).result).month = 1

\* the positions of the employees whose id is not the given one
OtherIds(emps, id) == {i \in 1..Len(emps) : emps[i].id # id}

\* C21: deleteEmployee(id) removes exactly the employees whose id is id and
\* updateEmployee(e) replaces exactly the employees whose id is e.id; both keep
\* the order of the other employees and leave payrollRecords, availablePeriods
\* and selectedPeriod as they were; an update of an id that is not present
\* leaves the list as it was.
C21_EmployeeFrame ==
    [][employeeCall # Null =>
          LET call == The(employeeCall)
              kept == OtherIds(employees, call.id)
              place(i) == Cardinality({j \in kept : j <= i})
          IN  /\ payrollRecords' = payrollRecords
              /\ availablePeriods' = availablePeriods
              /\ selectedPeriod' = selectedPeriod
              /\ call.name = "deleteEmployee" =>
                    /\ Len(employees') = Cardinality(kept)
                    /\ \A i \in kept : employees'[place(i)] = employees[i]
              /\ call.name = "updateEmployee" =>
                    /\ Len(employees') = Len(employees)
                    /\ \A i \in 1..Len(employees) :
                          employees'[i] = IF i \in kept THEN employees[i] ELSE call.employee
                    /\ kept = 1..Len(employees) => employees' = employees]_vars

\* C21 witness: an update has replaced both employees of id "1" around an
\* employee of another id, who is where it was
C21_Witness ==
    /\ employeeCall # Null
    /\ The(employeeCall).name = "updateEmployee"
    /\ dashboardStats # Null
    /\ Len(employees) = 3
    /\ employees[1] = The(employeeCall).employee
    /\ employees[2].id = "2"
    /\ employees[3] = The(employeeCall).employee

\* C22: for a record with billingAmount > 0, the margin of (2 x grossProfit,
\* 2 x billingAmount) is the margin of (grossProfit, billingAmount), and both
\* fall in the same band.
C22_ScaleInvariant ==
    (slip # Null /\ slipProps.record.billingAmount > 0) =>
        LET doubled == [slipProps.record EXCEPT !.billingAmount = 2 * @,
                                                !.grossProfit = 2 * @]
        IN  /\ marginRate(doubled) = The(slip).marginRate
            /\ getMarginColor(marginRate(doubled), settings) = The(slip).marginColor

\* C22 witness: a slip of a record at a margin of 12.5 %, between two bands'
\* bounds
C22_Witness ==
    /\ slip # Null
    /\ slipProps.record.billingAmount > 0
    /\ The(slip).marginRate = Finite(<<25, 2>>)
    /\ The(slip).marginColor = "green"

\* C29: under loadSampleData, addPayrollRecords, updateEmployee and
\* deleteEmployee, whenever availablePeriods is not empty selectedPeriod is one
\* of its members, and availablePeriods holds each distinct period of
\* payrollRecords exactly once.
C29_SelectedIsAvailable ==
    /\ availablePeriods # <<>> => selectedPeriod \in Range(availablePeriods)
    /\ Range(availablePeriods) = {r.period : r \in Range(payrollRecords)}
    /\ \A i, j \in 1..Len(availablePeriods) :
          availablePeriods[i] = availablePeriods[j] => i = j

\* the sum of a sequence of rationals
RECURSIVE RatSum(_)
RatSum(xs) == IF xs = <<>> THEN <<0, 1>> ELSE RatAdd(xs[1], RatSum(Tail(xs)))

\* C30: for every currentMargin and every targetMargin of 0..15, the default
\* 15 included, every segment of the main arc and of the target indicator is
\* non-negative and each of the two pies sums to 100.
C30_SegmentsFillThePie ==
    gauge # Null =>
        /\ \A i \in 1..2 : RatLeq(<<0, 1>>, The(gauge).gaugeData[i])
        /\ \A i \in 1..3 : RatLeq(<<0, 1>>, The(gauge).targetIndicator[i])
        /\ RatSum(The(gauge).gaugeData) = <<100, 1>>
        /\ RatSum(The(gauge).targetIndicator) = <<100, 1>>

\* file fileId is in the list
Listed(fileId) == \E k \in 1..Len(files) : files[k].id = fileId

\* the list's entry of a listed file
Entry(fileId) == files[CHOOSE k \in 1..Len(files) : files[k].id = fileId]

\* the moves of a file's status from one render to the next
StatusMoves ==
    {<<"uploading", "uploading">>, <<"uploading", "processing">>,
     <<"processing", "processing">>, <<"processing", "success">>,
     <<"processing", "error">>, <<"success", "success">>, <<"error", "error">>}

\* C23: over every interleaving of drops, ticks, timeouts and removals a
\* listed file's status moves only uploading -> processing -> success or
\* error, its progress never decreases and stays within 0..100, and a file
\* that is processing, success or error has progress 100.
C23_StatusAndProgress ==
    [][\A k \in 1..Len(files') :
          /\ files'[k].progress \in 0..100
          /\ files'[k].status \in {"uploading", "processing", "success", "error"}
          /\ files'[k].status # "uploading" => files'[k].progress = 100
          /\ \A j \in 1..Len(files) :
                files[j].id = files'[k].id =>
                    /\ <<files[j].status, files'[k].status>> \in StatusMoves
                    /\ files[j].progress <= files'[k].progress]_vars

\* one file has failed while another is part of the way up
C23_Witness ==
    /\ Len(files) = 2
    /\ files[1].status = "error"
    /\ files[2].status = "uploading"
    /\ files[2].progress \in 1..99

\* C24: a step in which the callback of one file's timers runs keeps the ids
\* of the list as they are, so a removed file stays removed, and leaves the
\* entry of every other file as it is.
C24_OwnEntryOnly ==
    [][\A fileId \in DOMAIN uploads :
          (Len(uploads') = Len(uploads) /\ uploads'[fileId] # uploads[fileId]) =>
              /\ Len(files') = Len(files)
              /\ \A k \in 1..Len(files) :
                    /\ files'[k].id = files[k].id
                    /\ files[k].id # fileId => files'[k] = files[k]]_vars

\* the timers of a removed file have run to their end beside a listed file
\* that has not moved
C24_Witness ==
    /\ Len(uploads) = 2
    /\ ~Listed(1)
    /\ uploads[1].timeout = "fired"
    /\ Listed(2)
    /\ Entry(2) = UploadedFileInfo(2)

\* C25: while the timers run, every listed file is in the end removed or
\* success or error; and clearInterval has run for an upload once if its
\* progress has reached 100 and never before.
C25_EveryUploadEnds ==
    /\ [](\A fileId \in DOMAIN uploads :
             /\ uploads[fileId].cleared =
                    IF uploads[fileId].progress >= 100 THEN 1 ELSE 0
             /\ uploads[fileId].interval = "cleared" <=>
                    uploads[fileId].progress >= 100)
    /\ \A fileId \in 1..MaxFiles :
          Listed(fileId) ~>
              (~Listed(fileId) \/ Entry(fileId).status \in {"success", "error"})

\* a listed file has ended and its interval was cleared once
C25_Witness ==
    /\ Listed(1)
    /\ Entry(1).status = "success"
    /\ uploads[1].cleared = 1
    /\ uploads[1].interval = "cleared"

\* C26: isLoading, once true, is false again in the end on every path of
\* handleSync; and handleSync awaits refreshFromBackend only after an OK
\* response with total_records_saved > 0 or files_processed > 0, isLoading
\* being true.
C26_LoadingEnds ==
    /\ isLoading ~> ~isLoading
    /\ [](isLoading <=> folderSync # Null)
    /\ []((folderSync # Null /\ The(folderSync).pc = "refresh") =>
             /\ The(folderSync).ok
             /\ \/ Positive(The(folderSync).data.total_records_saved)
                \/ Positive(The(folderSync).data.files_processed)
             /\ result = Obj(The(folderSync).data)
             /\ isLoading)

\* a run whose refreshFromBackend failed has ended
C26_Witness ==
    /\ ~isLoading
    /\ folderSync = Null
    /\ error = Obj("refresh failed")
    /\ result = Null

\* C27: when no handleSync is running, error and result are not both
\* non-null.
C27_ErrorOrResult ==
    folderSync = Null => ~(error # Null /\ result # Null)

\* C28: the timer a successful run started clears the message of that run
\* only: when it fires while syncStatus holds the status of another run, that
\* status stays.
C28_TimerClearsOwnMessage ==
    [][\A run \in clearTimers :
          (clearTimers' = clearTimers \ {run}
           /\ syncStatus # Null
           /\ The(syncStatus).run # run) => syncStatus' = syncStatus]_vars

====
